---- MODULE Spec2Model ----
(***************************************************************************)
(* Model of the CrewCut marketing budget calculator.                       *)
(*                                                                         *)
(*   - useMarketingCalculations (hooks/useMarketingCalculations.js): the   *)
(*     calculation engine, a pure function from the 14 input fields to the *)
(*     derived record;                                                     *)
(*   - CrewCutMarketingCalculator: the 14 useState fields, the 14 input    *)
(*     widgets with their validation bounds, and the memoized derived      *)
(*     record;                                                             *)
(*   - InputGroup.handleChange, safeParseFloat, clamp: the input           *)
(*     collector, in its two versions (the controlled number input and    *)
(*     the real-time text input with handleBlur).                         *)
(*                                                                         *)
(* JavaScript numbers are modelled as exact rationals, written             *)
(*     [n |-> _, d |-> _, e2 |-> _, e5 |-> _]  =  (n / d) * 2^e2 * 5^e5     *)
(* with n and d coprime to each other and to 10, d > 0 (zero is 0 / 1 with *)
(* both exponents 0), so that equal numbers are equal records.  Keeping    *)
(* the powers of 2 and 5 apart keeps n and d within the range of the model *)
(* checker's integers under the decimal fractions and percentages the      *)
(* program multiplies by.  The results of a division by zero are the three *)
(* values with d = 0 (PosInf, NegInf, NaN).  Binary floating-point         *)
(* rounding error is not modelled: the arithmetic is that of the formulas. *)
(***************************************************************************)
EXTENDS Integers, Sequences, FiniteSets, TLC

VARIABLES inputs, calculations, memoDeps, recomputed, events, pc, widget, lastEvent,
          call

vars == <<inputs, calculations, memoDeps, recomputed, events, pc, widget, lastEvent,
          call>>

-----------------------------------------------------------------------------
(* JavaScript numbers as rationals                                         *)

Abs(k) == IF k < 0 THEN -k ELSE k

Min(a, b) == IF a < b THEN a ELSE b

Max(a, b) == IF a > b THEN a ELSE b

RECURSIVE Gcd(_, _)
Gcd(a, b) == IF b = 0 THEN a ELSE Gcd(b, a % b)

Sign(k) == IF k > 0 THEN 1 ELSE IF k < 0 THEN -1 ELSE 0

\* p^e, e >= 0
RECURSIVE Pow(_, _)
Pow(p, e) == IF e = 0 THEN 1 ELSE p * Pow(p, e - 1)

\* The exponent of p in k, k # 0
RECURSIVE Valuation(_, _)
Valuation(k, p) == IF k % p = 0 THEN 1 + Valuation(k \div p, p) ELSE 0

\* The number (a / b) * 2^e2 * 5^e5, b # 0, in normal form
Norm(a, b, e2, e5) ==
    IF a = 0
    THEN [n |-> 0, d |-> 1, e2 |-> 0, e5 |-> 0]
    ELSE LET g == Gcd(Abs(a), Abs(b))
             a1 == Sign(b) * (a \div g)
             b1 == Abs(b) \div g
             a2 == Valuation(Abs(a1), 2)
             a5 == Valuation(Abs(a1), 5)
             b2 == Valuation(b1, 2)
             b5 == Valuation(b1, 5)
         IN  [n |-> a1 \div (Pow(2, a2) * Pow(5, a5)),
              d |-> b1 \div (Pow(2, b2) * Pow(5, b5)),
              e2 |-> e2 + a2 - b2,
              e5 |-> e5 + a5 - b5]

\* The number a / b, b # 0
Rat(a, b) == Norm(a, b, 0, 0)

Int2Num(k) == Norm(k, 1, 0, 0)

PosInf == [n |-> 1, d |-> 0, e2 |-> 0, e5 |-> 0]
NegInf == [n |-> -1, d |-> 0, e2 |-> 0, e5 |-> 0]
NaN == [n |-> 0, d |-> 0, e2 |-> 0, e5 |-> 0]

Zero == Int2Num(0)
One == Int2Num(1)

\* isFinite(x)
isFinite(x) == x.d # 0

\* The sign of x: 1, -1 or 0 (0 for NaN as well); signed zeros are not
\* modelled, so a quotient by a zero that JavaScript holds as -0 has the
\* sign of its dividend here.
Sgn(x) == Sign(x.n)

isNaN(x) == x.d = 0 /\ x.n = 0

\* x + y
Add(x, y) ==
    IF isFinite(x) /\ isFinite(y)
    THEN LET m2 == Min(x.e2, y.e2)
             m5 == Min(x.e5, y.e5)
             xn == x.n * Pow(2, x.e2 - m2) * Pow(5, x.e5 - m5)
             yn == y.n * Pow(2, y.e2 - m2) * Pow(5, y.e5 - m5)
             g == Gcd(x.d, y.d)
         IN  Norm(xn * (y.d \div g) + yn * (x.d \div g), (x.d \div g) * y.d, m2, m5)
    ELSE IF isNaN(x) \/ isNaN(y) THEN NaN
    ELSE IF isFinite(x) THEN y
    ELSE IF isFinite(y) \/ x = y THEN x
    ELSE NaN

\* -x, x - y
Neg(x) == [x EXCEPT !.n = -x.n]

Sub(x, y) == Add(x, Neg(y))

\* x * y
Mul(x, y) ==
    IF isFinite(x) /\ isFinite(y)
    THEN IF x.n = 0 \/ y.n = 0
         THEN Zero
         ELSE LET g1 == Gcd(Abs(x.n), y.d)
                  g2 == Gcd(Abs(y.n), x.d)
              IN  [n |-> (x.n \div g1) * (y.n \div g2),
                   d |-> (x.d \div g2) * (y.d \div g1),
                   e2 |-> x.e2 + y.e2,
                   e5 |-> x.e5 + y.e5]
    ELSE [n |-> Sgn(x) * Sgn(y), d |-> 0, e2 |-> 0, e5 |-> 0]

\* x / y: a finite x over zero is Infinity, -Infinity or (0 / 0) NaN
Div(x, y) ==
    IF isFinite(x) /\ isFinite(y)
    THEN IF y.n = 0
         THEN [n |-> Sgn(x), d |-> 0, e2 |-> 0, e5 |-> 0]
         ELSE Mul(x, [n |-> Sign(y.n) * y.d, d |-> Abs(y.n), e2 |-> -y.e2, e5 |-> -y.e5])
    ELSE IF isNaN(x) \/ isNaN(y) \/ (~isFinite(y) /\ ~isFinite(x)) THEN NaN
    ELSE IF isFinite(x) THEN Zero
    ELSE [n |-> Sgn(x) * (IF Sgn(y) < 0 THEN -1 ELSE 1), d |-> 0, e2 |-> 0, e5 |-> 0]

\* x > y, x < y, x >= y, x <= y: false when either side is NaN
Gt(x, y) == ~isNaN(x) /\ ~isNaN(y) /\ x # y /\ Sgn(Sub(x, y)) > 0
Lt(x, y) == Gt(y, x)
Ge(x, y) == ~isNaN(x) /\ ~isNaN(y) /\ ~Lt(x, y)
Le(x, y) == ~isNaN(x) /\ ~isNaN(y) /\ ~Gt(x, y)

\* x is an integer
IsInteger(x) == x.d = 1 /\ x.e2 >= 0 /\ x.e5 >= 0

\* Math.round(x): the integer nearest to x, halves rounded towards +Infinity;
\* a non-finite x is returned as it is
MathRound(x) ==
    IF ~isFinite(x) THEN x ELSE
    LET num == x.n * Pow(2, Max(x.e2, 0)) * Pow(5, Max(x.e5, 0))
        den == x.d * Pow(2, Max(-x.e2, 0)) * Pow(5, Max(-x.e5, 0))
    IN  Int2Num((2 * num + den) \div (2 * den))

\* Math.floor(x) on finite numbers
MathFloor(x) ==
    LET num == x.n * Pow(2, Max(x.e2, 0)) * Pow(5, Max(x.e5, 0))
        den == x.d * Pow(2, Max(-x.e2, 0)) * Pow(5, Max(-x.e5, 0))
    IN  Int2Num(num \div den)

\* Math.max(x, y), Math.min(x, y): NaN when either argument is NaN
MathMax(x, y) == IF isNaN(x) \/ isNaN(y) THEN NaN ELSE IF Gt(y, x) THEN y ELSE x
MathMin(x, y) == IF isNaN(x) \/ isNaN(y) THEN NaN ELSE IF Lt(y, x) THEN y ELSE x

-----------------------------------------------------------------------------
(* utils/constants.js                                                      *)

WEEKS_PER_YEAR == 52
MONTHS_PER_YEAR == 12
QUARTERS_PER_YEAR == 4

\* ADDITIONAL_BUDGET: the fixed costs beyond paid media
OUT_OF_HOME == 30000
CONTENT_PRODUCTION == 15000

\* Mutation: the franchise leads take the default service split
GOOGLE_FRANCHISE_RATIO_ServiceDefault == Rat(85, 100)

GOOGLE_FRANCHISE_RATIO == Rat(7, 10)
META_FRANCHISE_RATIO == Rat(3, 10)

Fields ==
    { "rmfRegionCount", "serviceLeadsPerWeekRMF", "aucklandServiceLeadsPerWeek",
      "franchiseLeadsPerMonth", "commercialLeadsPerQuarter",
      "googleServiceCPL", "metaServiceCPL", "googleFranchiseCPL",
      "metaFranchiseCPL", "linkedInCommercialCPL",
      "avgMonthlyServiceFee", "avgCustomerRetentionMonths",
      "serviceLeadConversionRate", "googleServiceSplit" }

\* The initial values of the 14 useState fields of the calculator
DefaultInputs ==
    [ rmfRegionCount |-> Int2Num(13),
      serviceLeadsPerWeekRMF |-> Int2Num(15),
      aucklandServiceLeadsPerWeek |-> Int2Num(100),
      franchiseLeadsPerMonth |-> Int2Num(5),
      commercialLeadsPerQuarter |-> Int2Num(1),
      googleServiceCPL |-> Int2Num(10),
      metaServiceCPL |-> Int2Num(8),
      googleFranchiseCPL |-> Int2Num(15),
      metaFranchiseCPL |-> Int2Num(12),
      linkedInCommercialCPL |-> Int2Num(50),
      avgMonthlyServiceFee |-> Int2Num(120),
      avgCustomerRetentionMonths |-> Int2Num(24),
      serviceLeadConversionRate |-> Rat(25, 100),
      googleServiceSplit |-> Rat(85, 100) ]

-----------------------------------------------------------------------------
(* hooks/useMarketingCalculations.js: the body of the memoized function    *)

\* One operator per statement of the function body, over the names the
\* statement reads; Calculate binds them in the order of the source.

rmfServiceLeadsAnnual(rmfRegionCount, serviceLeadsPerWeekRMF) ==
    Mul(Mul(rmfRegionCount, serviceLeadsPerWeekRMF), Int2Num(WEEKS_PER_YEAR))

\* Mutation: the weekly rate annualized with the months of a year
aucklandServiceLeadsAnnual_Monthly(aucklandServiceLeadsPerWeek) ==
    Mul(aucklandServiceLeadsPerWeek, Int2Num(MONTHS_PER_YEAR))

aucklandServiceLeadsAnnual(aucklandServiceLeadsPerWeek) ==
    Mul(aucklandServiceLeadsPerWeek, Int2Num(WEEKS_PER_YEAR))

\* Mutation: the auckland segment is left out of the total
totalServiceLeads_RmfOnly(rmfAnnual, aucklandAnnual) == rmfAnnual

totalServiceLeads(rmfAnnual, aucklandAnnual) == Add(rmfAnnual, aucklandAnnual)

totalFranchiseLeads(franchiseLeadsPerMonth) ==
    Mul(franchiseLeadsPerMonth, Int2Num(MONTHS_PER_YEAR))

totalCommercialLeads(commercialLeadsPerQuarter) ==
    Mul(commercialLeadsPerQuarter, Int2Num(QUARTERS_PER_YEAR))

\* Mutation: the google bucket takes the default fraction, not the input
googleServiceLeads_DefaultSplit(totalService, googleServiceSplit) ==
    Mul(totalService, Rat(85, 100))

googleServiceLeads(totalService, googleServiceSplit) ==
    Mul(totalService, googleServiceSplit)

\* Mutation: the meta bucket takes the google fraction
metaServiceLeads_SameSplit(totalService, googleServiceSplit) ==
    Mul(totalService, googleServiceSplit)

metaServiceLeads(totalService, googleServiceSplit) ==
    Mul(totalService, Sub(One, googleServiceSplit))

googleServiceBudget(googleLeads, googleServiceCPL) == Mul(googleLeads, googleServiceCPL)

\* Mutation: the spend is taken on the rounded bucket
metaServiceBudget_Rounded(metaLeads, metaServiceCPL) ==
    Mul(MathRound(metaLeads), metaServiceCPL)

metaServiceBudget(metaLeads, metaServiceCPL) == Mul(metaLeads, metaServiceCPL)

googleFranchiseBudget(totalFranchise, googleFranchiseCPL) ==
    Mul(Mul(totalFranchise, GOOGLE_FRANCHISE_RATIO), googleFranchiseCPL)

\* Mutation: the meta franchise spend takes the google ratio
metaFranchiseBudget_GoogleRatio(totalFranchise, metaFranchiseCPL) ==
    Mul(Mul(totalFranchise, GOOGLE_FRANCHISE_RATIO), metaFranchiseCPL)

metaFranchiseBudget(totalFranchise, metaFranchiseCPL) ==
    Mul(Mul(totalFranchise, META_FRANCHISE_RATIO), metaFranchiseCPL)

\* Mutation: leads per dollar instead of dollars per lead
commercialBudget_PerDollar(totalCommercial, linkedInCommercialCPL) ==
    Div(totalCommercial, linkedInCommercialCPL)

commercialBudget(totalCommercial, linkedInCommercialCPL) ==
    Mul(totalCommercial, linkedInCommercialCPL)

totalGoogleBudget(googleService, googleFranchise) == Add(googleService, googleFranchise)

totalMetaBudget(metaService, metaFranchise) == Add(metaService, metaFranchise)

\* Mutation: the commercial spend is left out of the grand total
totalPaidAds_NoCommercial(totalGoogle, totalMeta, commercial) ==
    Add(totalGoogle, totalMeta)

totalPaidAds(totalGoogle, totalMeta, commercial) ==
    Add(Add(totalGoogle, totalMeta), commercial)

\* Mutation: one year of fees instead of the retention period
customerLTV_Annual(avgMonthlyServiceFee, avgCustomerRetentionMonths) ==
    Mul(avgMonthlyServiceFee, Int2Num(MONTHS_PER_YEAR))

customerLTV(avgMonthlyServiceFee, avgCustomerRetentionMonths) ==
    Mul(avgMonthlyServiceFee, avgCustomerRetentionMonths)

convertedCustomers(totalService, serviceLeadConversionRate) ==
    Mul(totalService, serviceLeadConversionRate)

\* Mutation: the revenue accumulates over the invocations of the function
totalRevenue_Accumulated(converted, ltv) ==
    Add(Mul(converted, ltv),
        IF "financialMetrics" \in DOMAIN calculations
        THEN calculations.financialMetrics.totalRevenue
        ELSE Zero)

totalRevenue(converted, ltv) == Mul(converted, ltv)

\* Mutation: the division is not guarded
roi_Unguarded(revenue, paidAds) ==
    Mul(Div(Sub(revenue, paidAds), paidAds), Int2Num(100))

\* Mutation: the return is left as a fraction of the spend
roi_Fraction(revenue, paidAds) ==
    IF Gt(paidAds, Zero) THEN Div(Sub(revenue, paidAds), paidAds) ELSE Zero

roi(revenue, paidAds) ==
    IF Gt(paidAds, Zero)
    THEN Mul(Div(Sub(revenue, paidAds), paidAds), Int2Num(100))
    ELSE Zero

\* Mutation: the guard tests for a non-zero instead of a positive divisor
costPerAcquisition_NonZeroGuard(paidAds, converted) ==
    IF converted # Zero THEN Div(paidAds, converted) ELSE Zero

costPerAcquisition(paidAds, converted) ==
    IF Gt(converted, Zero) THEN Div(paidAds, converted) ELSE Zero

\* Mutation: the division is not guarded
ltvCacRatio_Unguarded(ltv, cpa) == Div(ltv, cpa)

ltvCacRatio(ltv, cpa) ==
    IF Gt(cpa, Zero) THEN Div(ltv, cpa) ELSE Zero

\* Mutation: the division is guarded like the other three
averageCPL_Guarded(paidAds, totalService, totalFranchise, totalCommercial) ==
    IF Gt(Add(Add(totalService, totalFranchise), totalCommercial), Zero)
    THEN Div(paidAds, Add(Add(totalService, totalFranchise), totalCommercial))
    ELSE Zero

averageCPL(paidAds, totalService, totalFranchise, totalCommercial) ==
    Div(paidAds, Add(Add(totalService, totalFranchise), totalCommercial))

\* Mutation: the counts are truncated downwards
roundCount_Floor(x) == MathFloor(x)

\* The rounding of the count fields in the returned object
roundCount(x) == MathRound(x)

\* Mutation: the leads of all three segments convert to customers
Calculate_AllLeadsConvert(inp) ==
    LET rmfAnnual == rmfServiceLeadsAnnual(inp.rmfRegionCount, inp.serviceLeadsPerWeekRMF)
        aucklandAnnual == aucklandServiceLeadsAnnual(inp.aucklandServiceLeadsPerWeek)
        totalService == totalServiceLeads(rmfAnnual, aucklandAnnual)
        totalFranchise == totalFranchiseLeads(inp.franchiseLeadsPerMonth)
        totalCommercial == totalCommercialLeads(inp.commercialLeadsPerQuarter)
        googleLeads == googleServiceLeads(totalService, inp.googleServiceSplit)
        metaLeads == metaServiceLeads(totalService, inp.googleServiceSplit)
        googleService == googleServiceBudget(googleLeads, inp.googleServiceCPL)
        metaService == metaServiceBudget(metaLeads, inp.metaServiceCPL)
        googleFranchise == googleFranchiseBudget(totalFranchise, inp.googleFranchiseCPL)
        metaFranchise == metaFranchiseBudget(totalFranchise, inp.metaFranchiseCPL)
        commercial == commercialBudget(totalCommercial, inp.linkedInCommercialCPL)
        totalGoogle == totalGoogleBudget(googleService, googleFranchise)
        totalMeta == totalMetaBudget(metaService, metaFranchise)
        paidAds == totalPaidAds(totalGoogle, totalMeta, commercial)
        ltv == customerLTV(inp.avgMonthlyServiceFee, inp.avgCustomerRetentionMonths)
        converted == convertedCustomers(Add(Add(totalService, totalFranchise), totalCommercial),
                                        inp.serviceLeadConversionRate)
        revenue == totalRevenue(converted, ltv)
        roiValue == roi(revenue, paidAds)
        cpa == costPerAcquisition(paidAds, converted)
        ltvCac == ltvCacRatio(ltv, cpa)
    IN  [ leadMetrics |->
            [ rmfServiceLeadsAnnual |-> roundCount(rmfAnnual),
              aucklandServiceLeadsAnnual |-> roundCount(aucklandAnnual),
              totalServiceLeads |-> roundCount(totalService),
              totalFranchiseLeads |-> roundCount(totalFranchise),
              totalCommercialLeads |-> roundCount(totalCommercial),
              totalLeads |-> roundCount(Add(Add(totalService, totalFranchise),
                                            totalCommercial)) ],
          channelLeads |->
            [ googleServiceLeads |-> roundCount(googleLeads),
              metaServiceLeads |-> roundCount(metaLeads) ],
          budgetAllocation |->
            [ googleServiceBudget |-> googleService,
              metaServiceBudget |-> metaService,
              googleFranchiseBudget |-> googleFranchise,
              metaFranchiseBudget |-> metaFranchise,
              commercialBudget |-> commercial,
              totalGoogleBudget |-> totalGoogle,
              totalMetaBudget |-> totalMeta,
              totalPaidAds |-> paidAds ],
          financialMetrics |->
            [ customerLTV |-> ltv,
              convertedCustomers |-> roundCount(converted),
              totalRevenue |-> revenue,
              roi |-> roiValue,
              costPerAcquisition |-> cpa,
              ltvCacRatio |-> ltvCac,
              averageCPL |-> averageCPL(paidAds, totalService, totalFranchise,
                                        totalCommercial) ] ]

\* The record the memoized function returns for the input fields inp
Calculate(inp) ==
    LET rmfAnnual == rmfServiceLeadsAnnual(inp.rmfRegionCount, inp.serviceLeadsPerWeekRMF)
        aucklandAnnual == aucklandServiceLeadsAnnual(inp.aucklandServiceLeadsPerWeek)
        totalService == totalServiceLeads(rmfAnnual, aucklandAnnual)
        totalFranchise == totalFranchiseLeads(inp.franchiseLeadsPerMonth)
        totalCommercial == totalCommercialLeads(inp.commercialLeadsPerQuarter)
        googleLeads == googleServiceLeads(totalService, inp.googleServiceSplit)
        metaLeads == metaServiceLeads(totalService, inp.googleServiceSplit)
        googleService == googleServiceBudget(googleLeads, inp.googleServiceCPL)
        metaService == metaServiceBudget(metaLeads, inp.metaServiceCPL)
        googleFranchise == googleFranchiseBudget(totalFranchise, inp.googleFranchiseCPL)
        metaFranchise == metaFranchiseBudget(totalFranchise, inp.metaFranchiseCPL)
        commercial == commercialBudget(totalCommercial, inp.linkedInCommercialCPL)
        totalGoogle == totalGoogleBudget(googleService, googleFranchise)
        totalMeta == totalMetaBudget(metaService, metaFranchise)
        paidAds == totalPaidAds(totalGoogle, totalMeta, commercial)
        ltv == customerLTV(inp.avgMonthlyServiceFee, inp.avgCustomerRetentionMonths)
        converted == convertedCustomers(totalService, inp.serviceLeadConversionRate)
        revenue == totalRevenue(converted, ltv)
        roiValue == roi(revenue, paidAds)
        cpa == costPerAcquisition(paidAds, converted)
        ltvCac == ltvCacRatio(ltv, cpa)
    IN  [ leadMetrics |->
            [ rmfServiceLeadsAnnual |-> roundCount(rmfAnnual),
              aucklandServiceLeadsAnnual |-> roundCount(aucklandAnnual),
              totalServiceLeads |-> roundCount(totalService),
              totalFranchiseLeads |-> roundCount(totalFranchise),
              totalCommercialLeads |-> roundCount(totalCommercial),
              totalLeads |-> roundCount(Add(Add(totalService, totalFranchise),
                                            totalCommercial)) ],
          channelLeads |->
            [ googleServiceLeads |-> roundCount(googleLeads),
              metaServiceLeads |-> roundCount(metaLeads) ],
          budgetAllocation |->
            [ googleServiceBudget |-> googleService,
              metaServiceBudget |-> metaService,
              googleFranchiseBudget |-> googleFranchise,
              metaFranchiseBudget |-> metaFranchise,
              commercialBudget |-> commercial,
              totalGoogleBudget |-> totalGoogle,
              totalMetaBudget |-> totalMeta,
              totalPaidAds |-> paidAds ],
          financialMetrics |->
            [ customerLTV |-> ltv,
              convertedCustomers |-> roundCount(converted),
              totalRevenue |-> revenue,
              roi |-> roiValue,
              costPerAcquisition |-> cpa,
              ltvCacRatio |-> ltvCac,
              averageCPL |-> averageCPL(paidAds, totalService, totalFranchise,
                                        totalCommercial) ] ]

-----------------------------------------------------------------------------
(* utils/utils.js and components/InputGroup.jsx: the input collector       *)

\* Raw texts are sequences of one-character strings.  Exponents ("1e3") are
\* not modelled: the text "Infinity" stands for the texts that parse to an
\* infinite number.
Digits == {"0", "1", "2", "3", "4", "5", "6", "7", "8", "9"}

DigitVal(c) ==
    CASE c = "0" -> 0 [] c = "1" -> 1 [] c = "2" -> 2 [] c = "3" -> 3 [] c = "4" -> 4
      [] c = "5" -> 5 [] c = "6" -> 6 [] c = "7" -> 7 [] c = "8" -> 8 [] c = "9" -> 9

RECURSIVE SkipSpaces(_)
SkipSpaces(t) == IF t # <<>> /\ Head(t) = " " THEN SkipSpaces(Tail(t)) ELSE t

\* The longest prefix of t made of digits
RECURSIVE DigitPrefix(_)
DigitPrefix(t) ==
    IF t # <<>> /\ Head(t) \in Digits THEN <<Head(t)>> \o DigitPrefix(Tail(t)) ELSE <<>>

RECURSIVE DigitsToInt(_, _)
DigitsToInt(ds, acc) ==
    IF ds = <<>> THEN acc ELSE DigitsToInt(Tail(ds), 10 * acc + DigitVal(Head(ds)))

RECURSIVE Pow10(_)
Pow10(k) == IF k = 0 THEN 1 ELSE 10 * Pow10(k - 1)

InfinityText == <<"I", "n", "f", "i", "n", "i", "t", "y">>

StartsWith(t, prefix) ==
    Len(t) >= Len(prefix) /\ SubSeq(t, 1, Len(prefix)) = prefix

\* parseFloat(text): optional white space, optional sign, then "Infinity" or
\* digits with an optional fraction; whatever follows is ignored; NaN when
\* neither is found.
parseFloat(text) ==
    LET t0 == SkipSpaces(text)
        signed == t0 # <<>> /\ Head(t0) \in {"-", "+"}
        sgn == IF signed /\ Head(t0) = "-" THEN -1 ELSE 1
        t1 == IF signed THEN Tail(t0) ELSE t0
        ip == DigitPrefix(t1)
        t2 == SubSeq(t1, Len(ip) + 1, Len(t1))
        dotted == t2 # <<>> /\ Head(t2) = "."
        fp == IF dotted THEN DigitPrefix(Tail(t2)) ELSE <<>>
    IN  IF StartsWith(t1, InfinityText)
        THEN (IF sgn < 0 THEN NegInf ELSE PosInf)
        ELSE IF ip = <<>> /\ fp = <<>>
        THEN NaN
        ELSE Rat(sgn * (DigitsToInt(ip, 0) * Pow10(Len(fp)) + DigitsToInt(fp, 0)),
                 Pow10(Len(fp)))

\* Mutation: the parsed number is returned whatever it is
safeParseFloat_Unchecked(value, defaultValue) == parseFloat(value)

safeParseFloat(value, defaultValue) ==
    LET parsed == parseFloat(value)
    IN  IF isFinite(parsed) THEN parsed ELSE defaultValue

isWithinRange(value, min, max) == isFinite(value) /\ Ge(value, min) /\ Le(value, max)

\* Mutation: only the upper bound is applied
clamp_UpperOnly(value, min, max) == MathMin(value, max)

clamp(value, min, max) == MathMin(MathMax(value, min), max)

\* The min and max props of the 14 InputGroup widgets of the calculator; the
\* widget of a field has the field's name.  Every widget is given a max.
WidgetMin ==
    [ rmfRegionCount |-> 1, serviceLeadsPerWeekRMF |-> 1,
      aucklandServiceLeadsPerWeek |-> 1, franchiseLeadsPerMonth |-> 1,
      commercialLeadsPerQuarter |-> 1,
      googleServiceCPL |-> 1, metaServiceCPL |-> 1, googleFranchiseCPL |-> 1,
      metaFranchiseCPL |-> 1, linkedInCommercialCPL |-> 1,
      avgMonthlyServiceFee |-> 50, avgCustomerRetentionMonths |-> 6,
      serviceLeadConversionRate |-> 5, googleServiceSplit |-> 50 ]

WidgetMax ==
    [ rmfRegionCount |-> 20, serviceLeadsPerWeekRMF |-> 50,
      aucklandServiceLeadsPerWeek |-> 200, franchiseLeadsPerMonth |-> 20,
      commercialLeadsPerQuarter |-> 10,
      googleServiceCPL |-> 100, metaServiceCPL |-> 100, googleFranchiseCPL |-> 100,
      metaFranchiseCPL |-> 100, linkedInCommercialCPL |-> 200,
      avgMonthlyServiceFee |-> 500, avgCustomerRetentionMonths |-> 60,
      serviceLeadConversionRate |-> 50, googleServiceSplit |-> 100 ]

\* The two percentage widgets show value * 100 and store val / 100
PercentWidgets == {"serviceLeadConversionRate", "googleServiceSplit"}

\* The value InputGroup.handleChange passes to onChange
handleChange(rawValue, min, max, maxDefined) ==
    LET parsedValue == safeParseFloat(rawValue, Zero)
    IN  IF maxDefined THEN clamp(parsedValue, min, max) ELSE MathMax(parsedValue, min)

\* Mutation: the percentage is stored as it is typed
onChange_NoPercent(w, val) == val

\* The onChange prop of widget w: the state setter, or val => setter(val / 100)
onChange(w, val) == IF w \in PercentWidgets THEN Div(val, Int2Num(100)) ELSE val

\* The value prop of widget w: the state field, or the field * 100
valueProp(w, inp) == IF w \in PercentWidgets THEN Mul(inp[w], Int2Num(100)) ELSE inp[w]

DigitChar(k) ==
    CASE k = 0 -> "0" [] k = 1 -> "1" [] k = 2 -> "2" [] k = 3 -> "3" [] k = 4 -> "4"
      [] k = 5 -> "5" [] k = 6 -> "6" [] k = 7 -> "7" [] k = 8 -> "8" [] k = 9 -> "9"

\* The decimal digits of k >= 0
RECURSIVE IntToDigits(_)
IntToDigits(k) ==
    IF k < 10 THEN <<DigitChar(k)>> ELSE IntToDigits(k \div 10) \o <<DigitChar(k % 10)>>

\* ds with zeros in front, up to length k
RECURSIVE PadLeft(_, _)
PadLeft(ds, k) == IF Len(ds) >= k THEN ds ELSE PadLeft(<<"0">> \o ds, k)

\* String(x) for a number with a finite decimal expansion: the sign, the
\* integer part and, when there is one, the fraction without trailing zeros.
\* (Numbers that print with an exponent are beyond the widgets' ranges.)
String(x) ==
    CASE isFinite(x) /\ x.d = 1 ->
        LET k == Max(0, Max(-x.e2, -x.e5))
            m == Abs(x.n) * Pow(2, x.e2 + k) * Pow(5, x.e5 + k)
        IN  (IF x.n < 0 THEN <<"-">> ELSE <<>>)
              \o IntToDigits(m \div Pow10(k))
              \o (IF k = 0 THEN <<>> ELSE <<".">> \o PadLeft(IntToDigits(m % Pow10(k)), k))

\* Mutation: the parsed number is committed as it is
validated_Unclamped(parsed, min, max, maxDefined) == parsed

\* The real-time InputGroup: the constraint both of its handlers apply to a
\* finite parsed number
validated(parsed, min, max, maxDefined) ==
    IF maxDefined THEN clamp(parsed, min, max) ELSE MathMax(parsed, min)

\* Mutation: a text without a number commits the default of the controlled
\* input, 0
finalValue_DefaultZero(displayValue, min, max, maxDefined) ==
    LET parsed == parseFloat(displayValue)
    IN  IF isFinite(parsed) THEN validated(parsed, min, max, maxDefined) ELSE Zero

\* The value its handleBlur passes to onChange for the text displayValue
finalValue(displayValue, min, max, maxDefined) ==
    LET parsed == parseFloat(displayValue)
    IN  IF isFinite(parsed) THEN validated(parsed, min, max, maxDefined) ELSE min

\* Its effect on [value]: an external change of the value prop replaces the
\* text on display
SyncEffect(wd, value) ==
    IF wd.previousValueRef # value
    THEN [wd EXCEPT !.displayValue = String(value), !.previousValueRef = value]
    ELSE wd

-----------------------------------------------------------------------------
(* components/InputGroup.jsx and utils/utils.js: what the calculator shows *)

\* Mutation: the content production cost is left out
totalMarketingBudget_NoContent(budgetAllocation) ==
    Add(budgetAllocation.totalPaidAds, Int2Num(OUT_OF_HOME))

\* The total of the Marketing Investment panel
totalMarketingBudget(budgetAllocation) ==
    Add(Add(budgetAllocation.totalPaidAds, Int2Num(OUT_OF_HOME)),
        Int2Num(CONTENT_PRODUCTION))

\* |x| rounded to the nearest integer, halves away from zero: the rounding
\* of Intl.NumberFormat (halfExpand) and of Number.prototype.toFixed
RoundHalfExpand(x) ==
    LET num == Abs(x.n) * Pow(2, Max(x.e2, 0)) * Pow(5, Max(x.e5, 0))
        den == x.d * Pow(2, Max(-x.e2, 0)) * Pow(5, Max(-x.e5, 0))
    IN  (2 * num + den) \div (2 * den)

\* The digits ds in groups of three, as the en locales write them
RECURSIVE Grouped(_)
Grouped(ds) ==
    IF Len(ds) <= 3 THEN ds
    ELSE Grouped(SubSeq(ds, 1, Len(ds) - 3)) \o <<",">>
           \o SubSeq(ds, Len(ds) - 2, Len(ds))

\* The sign in front of a formatted negative number; it stays when the
\* digits round to zero
Minus(x) == IF Lt(x, Zero) THEN <<"-">> ELSE <<>>

\* x.toFixed(decimals) for a finite x below 10^21
toFixed(x, decimals) ==
    LET n == RoundHalfExpand(Mul(x, Int2Num(Pow10(decimals))))
    IN  Minus(x) \o IntToDigits(n \div Pow10(decimals))
          \o (IF decimals = 0 THEN <<>>
              ELSE <<".">> \o PadLeft(IntToDigits(n % Pow10(decimals)), decimals))

\* Mutation: the amount is formatted without the test for a finite number
formatCurrency_Unchecked(amount, thrown) ==
    CASE isNaN(amount) -> <<"$", "N", "a", "N">>
      [] amount = PosInf -> <<"$">> \o InfinityText
      [] amount = NegInf -> <<"-", "$">> \o InfinityText
      [] OTHER -> Minus(amount) \o <<"$">> \o Grouped(IntToDigits(RoundHalfExpand(amount)))

\* formatCurrency: LOCALE_CONFIG is en-NZ, NZD, no fraction digits; thrown
\* tells whether Intl.NumberFormat threw, which sends the amount through
\* Math.round and toLocaleString (taken to group like the en locales)
formatCurrency(amount, thrown) ==
    IF ~isFinite(amount) THEN <<"$", "0">>
    ELSE IF thrown
    THEN <<"$">> \o Minus(MathRound(amount))
           \o Grouped(IntToDigits(Abs(MathRound(amount).n
                                        * Pow(2, MathRound(amount).e2)
                                        * Pow(5, MathRound(amount).e5))))
    ELSE Minus(amount) \o <<"$">> \o Grouped(IntToDigits(RoundHalfExpand(amount)))

\* Mutation: the value is truncated towards zero instead of rounded
formatNumber_Truncated(value, thrown) ==
    IF ~isFinite(value) THEN <<"0">>
    ELSE LET k == IF Lt(value, Zero) THEN Neg(MathFloor(Neg(value))) ELSE MathFloor(value)
         IN  IF thrown THEN String(k)
             ELSE Minus(value) \o Grouped(IntToDigits(RoundHalfExpand(k)))

\* formatNumber: the en-NZ format of Math.round(value), or its toString()
\* when Intl.NumberFormat threw.  Math.round keeps the sign of a negative
\* value that rounds to zero, and Intl prints it.
formatNumber(value, thrown) ==
    IF ~isFinite(value) THEN <<"0">>
    ELSE IF thrown THEN String(MathRound(value))
    ELSE Minus(value) \o Grouped(IntToDigits(RoundHalfExpand(MathRound(value))))

formatPercentage(value, decimals) ==
    IF ~isFinite(value) THEN <<"0", "%">>
    ELSE toFixed(Mul(value, Int2Num(100)), decimals) \o <<"%">>

\* Mutation: the quotient is not guarded
calculatePercentage_Unguarded(value, total) == Mul(Div(value, total), Int2Num(100))

calculatePercentage(value, total) ==
    IF total = Zero THEN Zero ELSE Mul(Div(value, total), Int2Num(100))

-----------------------------------------------------------------------------
(* Bounds                                                                  *)

\* Input events per behaviour of the calculator
MaxEvents == 2

\* Fields of an engine input record that differ from its base record
MaxEdits == 2

\* Renders of the hook after its first, per behaviour
MaxReruns == 2

\* The largest number of decimals a percentage is formatted with
MaxDecimals == 2

\* The raw texts of change events
RawTexts ==
    { <<>>, <<"-">>, <<"a", "b">>, <<"0">>, <<"7">>, <<"-", "3">>,
      <<"6", "2", ".", "5">>, <<"9", "9", "9">>, <<" ", "4", "0", "x">>,
      InfinityText }

\* Engine input records: a base record with at most MaxEdits fields replaced
SmallInputs ==
    [ rmfRegionCount |-> Int2Num(1),
      serviceLeadsPerWeekRMF |-> Int2Num(1),
      aucklandServiceLeadsPerWeek |-> Int2Num(3),
      franchiseLeadsPerMonth |-> Int2Num(1),
      commercialLeadsPerQuarter |-> Int2Num(1),
      googleServiceCPL |-> Int2Num(2),
      metaServiceCPL |-> Int2Num(3),
      googleFranchiseCPL |-> Int2Num(5),
      metaFranchiseCPL |-> Int2Num(7),
      linkedInCommercialCPL |-> Int2Num(11),
      avgMonthlyServiceFee |-> Int2Num(10),
      avgCustomerRetentionMonths |-> Int2Num(2),
      serviceLeadConversionRate |-> Rat(1, 2),
      googleServiceSplit |-> Rat(3, 4) ]

\* No leads in any segment
ZeroLeadInputs ==
    [SmallInputs EXCEPT !.serviceLeadsPerWeekRMF = Zero,
                        !.aucklandServiceLeadsPerWeek = Zero,
                        !.franchiseLeadsPerMonth = Zero,
                        !.commercialLeadsPerQuarter = Zero]

\* Service leads only, no auckland segment
ServiceOnlyInputs ==
    [SmallInputs EXCEPT !.aucklandServiceLeadsPerWeek = Zero,
                        !.franchiseLeadsPerMonth = Zero,
                        !.commercialLeadsPerQuarter = Zero,
                        !.googleServiceSplit = Rat(1, 2)]

BaseInputs == {SmallInputs, ZeroLeadInputs, ServiceOnlyInputs}

Alternatives ==
    [ rmfRegionCount |-> <<Int2Num(-1), Zero, Rat(1, 8), Int2Num(2)>>,
      serviceLeadsPerWeekRMF |-> <<Int2Num(-1), Zero, Rat(1, 8), Int2Num(2)>>,
      aucklandServiceLeadsPerWeek |-> <<Int2Num(-1), Zero, Rat(1, 8), Int2Num(2)>>,
      franchiseLeadsPerMonth |-> <<Int2Num(-1), Zero, Rat(1, 8), Int2Num(2)>>,
      commercialLeadsPerQuarter |-> <<Int2Num(-1), Zero, Rat(1, 8), Int2Num(2)>>,
      googleServiceCPL |-> <<Int2Num(-3), Zero, Rat(1, 2), Int2Num(4)>>,
      metaServiceCPL |-> <<Int2Num(-3), Zero, Rat(1, 2), Int2Num(4)>>,
      googleFranchiseCPL |-> <<Int2Num(-3), Zero, Rat(1, 2), Int2Num(4)>>,
      metaFranchiseCPL |-> <<Int2Num(-3), Zero, Rat(1, 2), Int2Num(4)>>,
      linkedInCommercialCPL |-> <<Int2Num(-3), Zero, Rat(1, 2), Int2Num(4)>>,
      avgMonthlyServiceFee |-> <<Int2Num(-10), Zero, Rat(99, 2), Int2Num(50)>>,
      avgCustomerRetentionMonths |-> <<Int2Num(-1), Zero, Rat(1, 2), Int2Num(6)>>,
      serviceLeadConversionRate |-> <<Rat(-1, 4), Zero, Rat(1, 8), One>>,
      googleServiceSplit |-> <<Rat(-1, 2), Zero, Rat(1, 8), One>> ]

AlternativeIndex == DOMAIN Alternatives.rmfRegionCount

-----------------------------------------------------------------------------
(* The calculator: 14 useState fields, 14 widgets, the memoized hook       *)

NoResult == [none |-> TRUE]

\* No InputGroup instance is followed, no event was dispatched
NoWidget == [none |-> "widget"]
NoEvent == [none |-> "event"]
\* No utility function has been called
NoCall == [fn |-> "none"]

\* The first render: useMemo runs the function on the initial state
Init ==
    /\ inputs = DefaultInputs
    /\ calculations = Calculate(DefaultInputs)
    /\ memoDeps = DefaultInputs
    /\ recomputed = TRUE
    /\ events = 0
    /\ pc = "rendered"
    /\ widget = NoWidget
    /\ lastEvent = NoEvent
    /\ call = NoCall

\* Mutation: googleServiceSplit is missing from the dependency list
Render_MissingDep(inp) ==
    /\ recomputed' = (\E f \in Fields \ {"googleServiceSplit"} : inp[f] # memoDeps[f])
    /\ calculations' = IF recomputed' THEN Calculate(inp) ELSE calculations
    /\ memoDeps' = inp

\* useMemo on a render with the input fields inp: the function runs again iff
\* one of the 14 dependencies differs from its value at the previous render
Render(inp) ==
    /\ recomputed' = (\E f \in Fields : inp[f] # memoDeps[f])
    /\ calculations' = IF recomputed' THEN Calculate(inp) ELSE calculations
    /\ memoDeps' = inp

\* A change event with text rawValue on widget w, and the render that the
\* state setter schedules
Change(w, rawValue) ==
    /\ pc = "rendered"
    /\ events < MaxEvents
    /\ LET parsedValue == handleChange(rawValue, Int2Num(WidgetMin[w]),
                                       Int2Num(WidgetMax[w]), TRUE)
       IN  inputs' = [inputs EXCEPT ![w] = onChange(w, parsedValue)]
    /\ Render(inputs')
    /\ events' = events + 1
    /\ pc' = pc
    /\ UNCHANGED <<widget, lastEvent>>
    /\ call' = call

\* A render with no state change (the parent re-renders)
Rerender ==
    /\ pc = "rendered"
    /\ events < MaxEvents
    /\ inputs' = inputs
    /\ Render(inputs)
    /\ events' = events + 1
    /\ pc' = pc
    /\ UNCHANGED <<widget, lastEvent>>
    /\ call' = call

Next ==
    \/ \E w \in Fields, rawValue \in RawTexts : Change(w, rawValue)
    \/ Rerender

Spec == Init /\ [][Next]_vars

-----------------------------------------------------------------------------
(* The engine alone: the hook is mounted on an arbitrary input record      *)

InitEngine ==
    /\ \E base \in BaseInputs, S \in SUBSET Fields :
          /\ Cardinality(S) <= MaxEdits
          /\ \E alt \in [S -> AlternativeIndex] :
                inputs = [f \in Fields |->
                            IF f \in S THEN Alternatives[f][alt[f]] ELSE base[f]]
    /\ calculations = NoResult
    /\ memoDeps = NoResult
    /\ recomputed = FALSE
    /\ events = 0
    /\ pc = "ready"
    /\ widget = NoWidget
    /\ lastEvent = NoEvent
    /\ call = NoCall

\* The first render of the hook: useMemo runs the function
Compute ==
    /\ pc = "ready"
    /\ calculations' = Calculate(inputs)
    /\ memoDeps' = inputs
    /\ recomputed' = TRUE
    /\ pc' = "done"
    /\ UNCHANGED <<inputs, events, widget, lastEvent>>
    /\ call' = call

NextEngine == Compute

SpecEngine == InitEngine /\ [][NextEngine]_vars

-----------------------------------------------------------------------------
(* The hook under a caller that renders it again and again                 *)

\* The values a caller gives field f on a later render
RerunValues(f) ==
    {Alternatives[f][i] : i \in AlternativeIndex} \cup {SmallInputs[f]}

\* The input records of the hook's first render
FirstInputs == {SmallInputs, ZeroLeadInputs}

InitHook ==
    /\ inputs \in FirstInputs
    /\ calculations = NoResult
    /\ memoDeps = NoResult
    /\ recomputed = FALSE
    /\ events = 0
    /\ pc = "ready"
    /\ widget = NoWidget
    /\ lastEvent = NoEvent
    /\ call = NoCall

\* The caller renders again with field f at value v: useMemo compares the
\* dependencies and runs the function if one differs
Rerun(f, v) ==
    /\ pc = "done"
    /\ events < MaxReruns
    /\ inputs' = [inputs EXCEPT ![f] = v]
    /\ Render(inputs')
    /\ events' = events + 1
    /\ pc' = pc
    /\ UNCHANGED <<widget, lastEvent>>
    /\ call' = call

\* The component is unmounted and mounted again on the same input record
\* (the second mount of React.StrictMode): the new useMemo has no cached
\* value and runs the function
Remount ==
    /\ pc = "done"
    /\ events < MaxReruns
    /\ calculations' = Calculate(inputs)
    /\ memoDeps' = inputs
    /\ recomputed' = TRUE
    /\ events' = events + 1
    /\ UNCHANGED <<inputs, pc, widget, lastEvent>>
    /\ call' = call

NextHook ==
    \/ Compute
    \/ \E f \in Fields : \E v \in RerunValues(f) : Rerun(f, v)
    \/ Remount

SpecHook == InitHook /\ [][NextHook]_vars

-----------------------------------------------------------------------------
(* One InputGroup of the calculator under a sequence of change and blur    *)
(* events, in either version of the component                              *)

\* components/InputGroup is the controlled number input or the real-time
\* text input, whichever the build bundles
Variants == {"controlled", "realtime"}

NotForwarded == [none |-> "onChange"]

\* The instance of widget w on the first render; the controlled version has
\* no state of its own
Mount(w, variant, inp) ==
    IF variant = "realtime"
    THEN [id |-> w, variant |-> variant,
          displayValue |-> String(valueProp(w, inp)),
          previousValueRef |-> valueProp(w, inp)]
    ELSE [id |-> w, variant |-> variant]

InitWidget ==
    /\ inputs = DefaultInputs
    /\ calculations = Calculate(DefaultInputs)
    /\ memoDeps = DefaultInputs
    /\ recomputed = TRUE
    /\ events = 0
    /\ pc = "rendered"
    /\ \E w \in Fields, variant \in Variants : widget = Mount(w, variant, DefaultInputs)
    /\ lastEvent = NoEvent
    /\ call = NoCall

\* A change event on the controlled input: parse with default 0, clamp,
\* onChange; the calculator renders
ChangeControlled(rawValue) ==
    /\ pc = "rendered"
    /\ events < MaxEvents
    /\ widget.variant = "controlled"
    /\ LET w == widget.id
           parsedValue == handleChange(rawValue, Int2Num(WidgetMin[w]),
                                       Int2Num(WidgetMax[w]), TRUE)
       IN  /\ inputs' = [inputs EXCEPT ![w] = onChange(w, parsedValue)]
           /\ lastEvent' = [type |-> "change", value |-> rawValue,
                            forwarded |-> parsedValue]
    /\ Render(inputs')
    /\ widget' = widget
    /\ events' = events + 1
    /\ pc' = pc
    /\ call' = call

\* A change event on the real-time input: the text goes on display; a finite
\* parsed number is constrained and committed, then the calculator renders
\* and the effect runs; any other text is not committed
ChangeRealtime(newValue) ==
    /\ pc = "rendered"
    /\ events < MaxEvents
    /\ widget.variant = "realtime"
    /\ LET w == widget.id
           parsed == parseFloat(newValue)
           val == validated(parsed, Int2Num(WidgetMin[w]), Int2Num(WidgetMax[w]), TRUE)
       IN  IF isFinite(parsed)
           THEN /\ inputs' = [inputs EXCEPT ![w] = onChange(w, val)]
                /\ Render(inputs')
                /\ widget' = SyncEffect([widget EXCEPT !.displayValue = newValue,
                                                       !.previousValueRef = val],
                                        valueProp(w, inputs'))
                /\ lastEvent' = [type |-> "change", value |-> newValue,
                                 forwarded |-> val]
           ELSE /\ widget' = [widget EXCEPT !.displayValue = newValue]
                /\ lastEvent' = [type |-> "change", value |-> newValue,
                                 forwarded |-> NotForwarded]
                /\ UNCHANGED <<inputs, calculations, memoDeps, recomputed>>
    /\ events' = events + 1
    /\ pc' = pc
    /\ call' = call

\* The real-time input loses the focus: handleBlur commits the constrained
\* number on display, or min, and puts it on display
Blur ==
    /\ pc = "rendered"
    /\ events < MaxEvents
    /\ widget.variant = "realtime"
    /\ LET w == widget.id
           final == finalValue(widget.displayValue, Int2Num(WidgetMin[w]),
                               Int2Num(WidgetMax[w]), TRUE)
       IN  /\ inputs' = [inputs EXCEPT ![w] = onChange(w, final)]
           /\ Render(inputs')
           /\ widget' = SyncEffect([widget EXCEPT !.displayValue = String(final),
                                                  !.previousValueRef = final],
                                   valueProp(w, inputs'))
           /\ lastEvent' = [type |-> "blur", value |-> widget.displayValue,
                            forwarded |-> final]
    /\ events' = events + 1
    /\ pc' = pc
    /\ call' = call

NextWidget ==
    \/ \E rawValue \in RawTexts : ChangeControlled(rawValue)
    \/ \E newValue \in RawTexts : ChangeRealtime(newValue)
    \/ Blur

SpecWidget == InitWidget /\ [][NextWidget]_vars

-----------------------------------------------------------------------------
(* The functions of utils/utils.js, called on their own                    *)

\* The amounts given to formatCurrency and formatNumber, with the averageCPL
\* of a record without leads and of a record with leads
Amounts ==
    { NaN, PosInf, NegInf, Zero, Rat(-2, 5), Rat(1, 2), Rat(-1, 2), Rat(5, 2),
      Rat(-5, 2), Int2Num(-3), Int2Num(7), Rat(2469, 2), Int2Num(1234567),
      Calculate(ZeroLeadInputs).financialMetrics.averageCPL,
      Calculate(SmallInputs).financialMetrics.averageCPL }

\* The fractions given to formatPercentage
Fractions ==
    { NaN, PosInf, NegInf, Zero, Rat(17, 20), Rat(1, 8), Rat(-1, 8), One,
      Rat(1, 400), Rat(1, 3) }

\* The arguments of clamp, isWithinRange and calculatePercentage
UtilNumbers ==
    { NaN, PosInf, NegInf, Int2Num(-3), Zero, Rat(1, 2), Int2Num(7), Int2Num(100) }

InitUtils ==
    /\ inputs = DefaultInputs
    /\ calculations = NoResult
    /\ memoDeps = NoResult
    /\ recomputed = FALSE
    /\ events = 0
    /\ pc = "utils"
    /\ widget = NoWidget
    /\ lastEvent = NoEvent
    /\ call = NoCall

CallFormatCurrency(amount, thrown) ==
    /\ pc = "utils"
    /\ call' = [fn |-> "formatCurrency", args |-> <<amount>>, thrown |-> thrown,
                result |-> formatCurrency(amount, thrown)]
    /\ UNCHANGED <<inputs, calculations, memoDeps, recomputed, events, pc, widget,
                   lastEvent>>

CallFormatNumber(value, thrown) ==
    /\ pc = "utils"
    /\ call' = [fn |-> "formatNumber", args |-> <<value>>, thrown |-> thrown,
                result |-> formatNumber(value, thrown)]
    /\ UNCHANGED <<inputs, calculations, memoDeps, recomputed, events, pc, widget,
                   lastEvent>>

CallFormatPercentage(value, decimals) ==
    /\ pc = "utils"
    /\ call' = [fn |-> "formatPercentage", args |-> <<value>>, decimals |-> decimals,
                result |-> formatPercentage(value, decimals)]
    /\ UNCHANGED <<inputs, calculations, memoDeps, recomputed, events, pc, widget,
                   lastEvent>>

CallClamp(value, min, max) ==
    /\ pc = "utils"
    /\ call' = [fn |-> "clamp", args |-> <<value, min, max>>,
                result |-> clamp(value, min, max)]
    /\ UNCHANGED <<inputs, calculations, memoDeps, recomputed, events, pc, widget,
                   lastEvent>>

CallIsWithinRange(value, min, max) ==
    /\ pc = "utils"
    /\ call' = [fn |-> "isWithinRange", args |-> <<value, min, max>>,
                result |-> isWithinRange(value, min, max)]
    /\ UNCHANGED <<inputs, calculations, memoDeps, recomputed, events, pc, widget,
                   lastEvent>>

CallCalculatePercentage(value, total) ==
    /\ pc = "utils"
    /\ call' = [fn |-> "calculatePercentage", args |-> <<value, total>>,
                result |-> calculatePercentage(value, total)]
    /\ UNCHANGED <<inputs, calculations, memoDeps, recomputed, events, pc, widget,
                   lastEvent>>

NextUtils ==
    \/ \E amount \in Amounts, thrown \in BOOLEAN : CallFormatCurrency(amount, thrown)
    \/ \E value \in Amounts, thrown \in BOOLEAN : CallFormatNumber(value, thrown)
    \/ \E value \in Fractions, decimals \in 0..MaxDecimals :
          CallFormatPercentage(value, decimals)
    \/ \E value \in UtilNumbers, min \in UtilNumbers, max \in UtilNumbers :
          CallClamp(value, min, max)
    \/ \E value \in UtilNumbers, min \in UtilNumbers, max \in UtilNumbers :
          CallIsWithinRange(value, min, max)
    \/ \E value \in UtilNumbers, total \in UtilNumbers :
          CallCalculatePercentage(value, total)

SpecUtils == InitUtils /\ [][NextUtils]_vars

-----------------------------------------------------------------------------
(* Properties                                                              *)

LM == calculations.leadMetrics
CL == calculations.channelLeads
BA == calculations.budgetAllocation
FM == calculations.financialMetrics

Half == Rat(1, 2)

\* The exact values of the formulas, from the input fields
ExactRmf ==
    Mul(Int2Num(52), Mul(inputs.serviceLeadsPerWeekRMF, inputs.rmfRegionCount))
ExactAuckland == Mul(Int2Num(52), inputs.aucklandServiceLeadsPerWeek)
ExactService == Add(ExactAuckland, ExactRmf)
ExactFranchise == Mul(Int2Num(12), inputs.franchiseLeadsPerMonth)
ExactCommercial == Mul(Int2Num(4), inputs.commercialLeadsPerQuarter)
ExactGoogleLeads == Mul(inputs.googleServiceSplit, ExactService)
ExactMetaLeads == Sub(ExactService, ExactGoogleLeads)
ExactConverted == Mul(inputs.serviceLeadConversionRate, ExactService)

\* f is x rounded to the nearest integer, halves upwards
RoundsTo(f, x) ==
    /\ IsInteger(f)
    /\ Le(f, Add(x, Half))
    /\ Lt(Add(x, Half), Add(f, One))

LeadFields ==
    { "rmfRegionCount", "serviceLeadsPerWeekRMF", "aucklandServiceLeadsPerWeek",
      "franchiseLeadsPerMonth", "commercialLeadsPerQuarter" }

CPLFields ==
    { "googleServiceCPL", "metaServiceCPL", "googleFranchiseCPL",
      "metaFranchiseCPL", "linkedInCommercialCPL" }

InUnitInterval(x) == Ge(x, Zero) /\ Le(x, One)

\* A valid input record: non-negative rates, positive CPLs, non-negative fee
\* and retention, conversion rate and split fraction in [0, 1]
ValidInputs ==
    /\ \A f \in LeadFields : Ge(inputs[f], Zero)
    /\ \A f \in CPLFields : Gt(inputs[f], Zero)
    /\ Ge(inputs.avgMonthlyServiceFee, Zero)
    /\ Ge(inputs.avgCustomerRetentionMonths, Zero)
    /\ InUnitInterval(inputs.serviceLeadConversionRate)
    /\ InUnitInterval(inputs.googleServiceSplit)

\* C1: the calculator starts from the default input record (13, 15, 100, 5, 1,
\* CPLs 10/8/15/12/50, fee 120, retention 24, conversion 0.25, split 0.85),
\* and whenever the input record is that record the derived record has
\* totalServiceLeads = 15340, totalFranchiseLeads = 60,
\* totalCommercialLeads = 4 and customerLTV = 2880.
ScenarioAInputs ==
    [ rmfRegionCount |-> Int2Num(13),
      serviceLeadsPerWeekRMF |-> Int2Num(15),
      aucklandServiceLeadsPerWeek |-> Int2Num(100),
      franchiseLeadsPerMonth |-> Int2Num(5),
      commercialLeadsPerQuarter |-> Int2Num(1),
      googleServiceCPL |-> Int2Num(10),
      metaServiceCPL |-> Int2Num(8),
      googleFranchiseCPL |-> Int2Num(15),
      metaFranchiseCPL |-> Int2Num(12),
      linkedInCommercialCPL |-> Int2Num(50),
      avgMonthlyServiceFee |-> Int2Num(120),
      avgCustomerRetentionMonths |-> Int2Num(24),
      serviceLeadConversionRate |-> Rat(1, 4),
      googleServiceSplit |-> Rat(17, 20) ]

C1_ScenarioA ==
    /\ events = 0 => inputs = ScenarioAInputs
    /\ inputs = ScenarioAInputs =>
          /\ LM.totalServiceLeads = Int2Num(15340)
          /\ LM.totalFranchiseLeads = Int2Num(60)
          /\ LM.totalCommercialLeads = Int2Num(4)
          /\ FM.customerLTV = Int2Num(2880)

\* The first render, on the default record
C1_Witness ==
    /\ events = 0
    /\ inputs = ScenarioAInputs
    /\ recomputed
    /\ LM.totalServiceLeads = Int2Num(15340)

\* C2: once the engine has returned, totalPaidAds = 0 implies roi = 0, zero
\* converted customers (total service leads x conversion rate) implies
\* costPerAcquisition = 0, costPerAcquisition = 0 implies ltvCacRatio = 0, and
\* the three are finite numbers, for every input record.
C2_ZeroGuard ==
    pc = "done" =>
        /\ BA.totalPaidAds = Zero => FM.roi = Zero
        /\ ExactConverted = Zero => FM.costPerAcquisition = Zero
        /\ FM.costPerAcquisition = Zero => FM.ltvCacRatio = Zero
        /\ isFinite(FM.roi)
        /\ isFinite(FM.costPerAcquisition)
        /\ isFinite(FM.ltvCacRatio)

\* No spend and no converted customer, with a positive lifetime value
C2_Witness ==
    /\ pc = "done"
    /\ BA.totalPaidAds = Zero
    /\ ExactConverted = Zero
    /\ FM.costPerAcquisition = Zero
    /\ Gt(FM.customerLTV, Zero)

\* C3 as stated: 0 is substituted only for a divisor that is exactly zero -
\* for every input record, negative ones included, a non-zero total spend
\* gives roi = ((totalRevenue - totalPaidAds) / totalPaidAds) x 100, non-zero
\* converted customers give costPerAcquisition = totalPaidAds / converted
\* customers, a non-zero costPerAcquisition gives ltvCacRatio = customerLTV /
\* costPerAcquisition.
C3_GuardOnlyAtZero ==
    pc = "done" =>
        /\ BA.totalPaidAds # Zero =>
              FM.roi = Mul(Int2Num(100),
                           Div(Sub(FM.totalRevenue, BA.totalPaidAds), BA.totalPaidAds))
        /\ ExactConverted # Zero =>
              FM.costPerAcquisition = Div(BA.totalPaidAds, ExactConverted)
        /\ FM.costPerAcquisition # Zero =>
              FM.ltvCacRatio = Div(FM.customerLTV, FM.costPerAcquisition)

\* C3 amended: 0 is substituted whenever the divisor is not strictly
\* positive - the three quotients are as stated for a positive total spend,
\* positive converted customers and a positive costPerAcquisition, and 0 for
\* a zero or negative one.
C3_GuardAtNonPositive ==
    pc = "done" =>
        /\ FM.roi =
              IF Gt(BA.totalPaidAds, Zero)
              THEN Mul(Int2Num(100),
                       Div(Sub(FM.totalRevenue, BA.totalPaidAds), BA.totalPaidAds))
              ELSE Zero
        /\ FM.costPerAcquisition =
              IF Gt(ExactConverted, Zero)
              THEN Div(BA.totalPaidAds, ExactConverted)
              ELSE Zero
        /\ FM.ltvCacRatio =
              IF Gt(FM.costPerAcquisition, Zero)
              THEN Div(FM.customerLTV, FM.costPerAcquisition)
              ELSE Zero

\* A positive spend with a negative number of converted customers
C3_Witness ==
    /\ pc = "done"
    /\ Gt(BA.totalPaidAds, Zero)
    /\ Lt(ExactConverted, Zero)
    /\ FM.roi # Zero
    /\ FM.costPerAcquisition = Zero

\* C4 as stated: every count field of the derived record equals the exact,
\* unrounded value of its formula, for every valid input record.
C4_CountsUnrounded ==
    (pc = "done" /\ ValidInputs) =>
        /\ LM.rmfServiceLeadsAnnual = ExactRmf
        /\ LM.aucklandServiceLeadsAnnual = ExactAuckland
        /\ LM.totalServiceLeads = ExactService
        /\ LM.totalFranchiseLeads = ExactFranchise
        /\ LM.totalCommercialLeads = ExactCommercial
        /\ LM.totalLeads = Add(ExactService, Add(ExactFranchise, ExactCommercial))
        /\ CL.googleServiceLeads = ExactGoogleLeads
        /\ CL.metaServiceLeads = ExactMetaLeads
        /\ FM.convertedCustomers = ExactConverted

\* C4 amended: every count field of the derived record is the value of its
\* formula rounded to the nearest integer (halves upwards), for every valid
\* input record; it is the exact value when that value is an integer.
C4_CountsRounded ==
    (pc = "done" /\ ValidInputs) =>
        /\ RoundsTo(LM.rmfServiceLeadsAnnual, ExactRmf)
        /\ RoundsTo(LM.aucklandServiceLeadsAnnual, ExactAuckland)
        /\ RoundsTo(LM.totalServiceLeads, ExactService)
        /\ RoundsTo(LM.totalFranchiseLeads, ExactFranchise)
        /\ RoundsTo(LM.totalCommercialLeads, ExactCommercial)
        /\ RoundsTo(LM.totalLeads, Add(ExactService, Add(ExactFranchise, ExactCommercial)))
        /\ RoundsTo(CL.googleServiceLeads, ExactGoogleLeads)
        /\ RoundsTo(CL.metaServiceLeads, ExactMetaLeads)
        /\ RoundsTo(FM.convertedCustomers, ExactConverted)
        /\ IsInteger(ExactConverted) => FM.convertedCustomers = ExactConverted
        /\ IsInteger(ExactService) => LM.totalServiceLeads = ExactService

\* A valid record whose service total has a fractional part of at least 1/2
\* and whose converted-customer count is not an integer
C4_Witness ==
    /\ pc = "done"
    /\ ValidInputs
    /\ ~IsInteger(ExactService)
    /\ Gt(LM.totalServiceLeads, ExactService)
    /\ ~IsInteger(ExactConverted)

\* C5 as stated: channelLeads.googleServiceLeads + channelLeads.metaServiceLeads
\* = leadMetrics.totalServiceLeads for every valid input record.
C5_SplitConservation ==
    (pc = "done" /\ ValidInputs) =>
        Add(CL.googleServiceLeads, CL.metaServiceLeads) = LM.totalServiceLeads

SplitGap == Sub(Add(CL.googleServiceLeads, CL.metaServiceLeads), LM.totalServiceLeads)

\* C5 amended: for every valid input record the two returned buckets sum to
\* the returned total up to the rounding of the three fields - the sum
\* differs from leadMetrics.totalServiceLeads by at most 1, and equals it
\* when the exact google bucket (total service leads x split) and the exact
\* total are integers.
C5_SplitConservationRounded ==
    (pc = "done" /\ ValidInputs) =>
        /\ SplitGap \in {Int2Num(-1), Zero, One}
        /\ (IsInteger(ExactGoogleLeads) /\ IsInteger(ExactService)) => SplitGap = Zero

\* A valid record, split strictly inside (0, 1), whose buckets are both
\* rounded upwards
C5_Witness ==
    /\ pc = "done"
    /\ ValidInputs
    /\ Gt(inputs.googleServiceSplit, Zero)
    /\ Lt(inputs.googleServiceSplit, One)
    /\ Gt(ExactService, Zero)
    /\ SplitGap = One

NonNegativeRates ==
    /\ Ge(inputs.rmfRegionCount, Zero)
    /\ Ge(inputs.serviceLeadsPerWeekRMF, Zero)
    /\ Ge(inputs.aucklandServiceLeadsPerWeek, Zero)

\* C6 as stated: leadMetrics.totalServiceLeads = leadMetrics.rmfServiceLeadsAnnual
\* + leadMetrics.aucklandServiceLeadsAnnual exactly, for every input record
\* with non-negative region count and weekly rates, integer or fractional.
C6_Additivity ==
    (pc = "done" /\ NonNegativeRates) =>
        LM.totalServiceLeads = Add(LM.rmfServiceLeadsAnnual, LM.aucklandServiceLeadsAnnual)

SegmentGap ==
    Sub(Add(LM.rmfServiceLeadsAnnual, LM.aucklandServiceLeadsAnnual), LM.totalServiceLeads)

\* C6 amended: for non-negative region count and weekly rates the equality
\* holds exactly when both annualized segments are integers (so for integer
\* region count and weekly rates); otherwise the sum of the two returned
\* segments differs from the returned total by at most 1.
C6_AdditivityRounded ==
    (pc = "done" /\ NonNegativeRates) =>
        /\ (IsInteger(ExactRmf) /\ IsInteger(ExactAuckland)) => SegmentGap = Zero
        /\ (IsInteger(inputs.rmfRegionCount) /\ IsInteger(inputs.serviceLeadsPerWeekRMF)
              /\ IsInteger(inputs.aucklandServiceLeadsPerWeek)) => SegmentGap = Zero
        /\ SegmentGap \in {Int2Num(-1), Zero, One}

\* Integer rates with both segments present
C6_Witness ==
    /\ pc = "done"
    /\ NonNegativeRates
    /\ IsInteger(inputs.rmfRegionCount)
    /\ IsInteger(inputs.serviceLeadsPerWeekRMF)
    /\ IsInteger(inputs.aucklandServiceLeadsPerWeek)
    /\ Gt(LM.rmfServiceLeadsAnnual, Zero)
    /\ Gt(LM.aucklandServiceLeadsAnnual, Zero)

\* C7 as stated: googleServiceBudget = channelLeads.googleServiceLeads x
\* googleServiceCPL and metaServiceBudget = channelLeads.metaServiceLeads x
\* metaServiceCPL, on the returned fields, for every valid input record.
C7_ServiceSpendOnReturnedLeads ==
    (pc = "done" /\ ValidInputs) =>
        /\ BA.googleServiceBudget = Mul(CL.googleServiceLeads, inputs.googleServiceCPL)
        /\ BA.metaServiceBudget = Mul(CL.metaServiceLeads, inputs.metaServiceCPL)

\* C7 amended: for every valid input record googleServiceBudget = (total
\* service leads x s) x googleServiceCPL and metaServiceBudget = (total
\* service leads x (1 - s)) x metaServiceCPL on the exact, unrounded buckets;
\* they are the returned channelLeads x CPL when the bucket is an integer.
C7_ServiceSpendOnExactLeads ==
    (pc = "done" /\ ValidInputs) =>
        /\ BA.googleServiceBudget = Mul(inputs.googleServiceCPL, ExactGoogleLeads)
        /\ BA.metaServiceBudget = Mul(inputs.metaServiceCPL, ExactMetaLeads)
        /\ IsInteger(ExactGoogleLeads) =>
              BA.googleServiceBudget = Mul(CL.googleServiceLeads, inputs.googleServiceCPL)
        /\ IsInteger(ExactMetaLeads) =>
              BA.metaServiceBudget = Mul(CL.metaServiceLeads, inputs.metaServiceCPL)

\* A valid record whose meta bucket is not an integer
C7_Witness ==
    /\ pc = "done"
    /\ ValidInputs
    /\ ~IsInteger(ExactMetaLeads)
    /\ Gt(BA.metaServiceBudget, Zero)
    /\ Gt(BA.googleServiceBudget, Zero)

\* C8: for non-zero franchise CPLs, googleFranchiseBudget / googleFranchiseCPL
\* is 0.7 and metaFranchiseBudget / metaFranchiseCPL is 0.3 of the total
\* franchise leads (monthly rate x 12), and the two sum to the total
\* franchise leads, whatever the other inputs.
C8_FranchiseRatio ==
    (pc = "done" /\ inputs.googleFranchiseCPL # Zero /\ inputs.metaFranchiseCPL # Zero) =>
        LET googleImplied == Div(BA.googleFranchiseBudget, inputs.googleFranchiseCPL)
            metaImplied == Div(BA.metaFranchiseBudget, inputs.metaFranchiseCPL)
        IN  /\ googleImplied = Mul(Rat(7, 10), ExactFranchise)
            /\ metaImplied = Mul(Rat(3, 10), ExactFranchise)
            /\ Add(googleImplied, metaImplied) = ExactFranchise
            /\ IsInteger(ExactFranchise) =>
                  Add(googleImplied, metaImplied) = LM.totalFranchiseLeads

\* Franchise leads with different CPLs on the two channels and a service
\* split that is not the franchise ratio
C8_Witness ==
    /\ pc = "done"
    /\ Gt(ExactFranchise, Zero)
    /\ Gt(inputs.googleFranchiseCPL, Zero)
    /\ Gt(inputs.metaFranchiseCPL, Zero)
    /\ inputs.googleFranchiseCPL # inputs.metaFranchiseCPL
    /\ inputs.googleServiceSplit # Rat(7, 10)
    /\ Gt(BA.metaFranchiseBudget, Zero)

\* C9: totalGoogleBudget = googleServiceBudget + googleFranchiseBudget,
\* totalMetaBudget = metaServiceBudget + metaFranchiseBudget, commercialBudget
\* = total commercial leads (quarterly rate x 4) x linkedInCommercialCPL and
\* totalPaidAds = totalGoogleBudget + totalMetaBudget + commercialBudget, for
\* every input record.
C9_Aggregation ==
    pc = "done" =>
        /\ BA.totalGoogleBudget = Add(BA.googleFranchiseBudget, BA.googleServiceBudget)
        /\ BA.totalMetaBudget = Add(BA.metaFranchiseBudget, BA.metaServiceBudget)
        /\ BA.commercialBudget = Mul(inputs.linkedInCommercialCPL, ExactCommercial)
        /\ BA.totalPaidAds =
              Add(BA.commercialBudget, Add(BA.totalMetaBudget, BA.totalGoogleBudget))

\* All five campaign budgets are spent
C9_Witness ==
    /\ pc = "done"
    /\ Gt(BA.googleServiceBudget, Zero)
    /\ Gt(BA.googleFranchiseBudget, Zero)
    /\ Gt(BA.metaServiceBudget, Zero)
    /\ Gt(BA.metaFranchiseBudget, Zero)
    /\ Gt(BA.commercialBudget, Zero)

\* C10 as stated: customerLTV = fee x retention, the returned
\* convertedCustomers = total service leads x conversion rate, and the
\* returned totalRevenue = the returned convertedCustomers x the returned
\* customerLTV, for every valid input record.
C10_RevenueOnReturnedCount ==
    (pc = "done" /\ ValidInputs) =>
        /\ FM.customerLTV =
              Mul(inputs.avgCustomerRetentionMonths, inputs.avgMonthlyServiceFee)
        /\ FM.convertedCustomers = ExactConverted
        /\ FM.totalRevenue = Mul(FM.convertedCustomers, FM.customerLTV)

\* C10 amended: for every valid input record customerLTV = fee x retention,
\* the returned convertedCustomers is total service leads x conversion rate
\* rounded to the nearest integer, and totalRevenue = (total service leads x
\* conversion rate, unrounded) x customerLTV; it is the product of the
\* returned count and the returned LTV when the unrounded count is an integer.
C10_RevenueOnExactCount ==
    (pc = "done" /\ ValidInputs) =>
        /\ FM.customerLTV =
              Mul(inputs.avgCustomerRetentionMonths, inputs.avgMonthlyServiceFee)
        /\ RoundsTo(FM.convertedCustomers, ExactConverted)
        /\ FM.totalRevenue = Mul(FM.customerLTV, ExactConverted)
        /\ IsInteger(ExactConverted) =>
              FM.totalRevenue = Mul(FM.convertedCustomers, FM.customerLTV)

\* A valid record with revenue, a retention other than a year and a
\* converted-customer count that is not an integer
C10_Witness ==
    /\ pc = "done"
    /\ ValidInputs
    /\ Gt(FM.totalRevenue, Zero)
    /\ inputs.avgCustomerRetentionMonths # Int2Num(12)
    /\ ~IsInteger(ExactConverted)

\* C11: whenever googleServiceSplit = 1, the returned metaServiceLeads and
\* metaServiceBudget are exactly 0, the returned googleServiceLeads is the
\* returned totalServiceLeads, and the whole service spend is
\* googleServiceBudget = total service leads x googleServiceCPL, whatever the
\* other inputs.
C11_ScenarioC ==
    (pc = "done" /\ inputs.googleServiceSplit = One) =>
        /\ CL.metaServiceLeads = Zero
        /\ BA.metaServiceBudget = Zero
        /\ CL.googleServiceLeads = LM.totalServiceLeads
        /\ BA.googleServiceBudget = Mul(inputs.googleServiceCPL, ExactService)
        /\ Add(BA.googleServiceBudget, BA.metaServiceBudget) = BA.googleServiceBudget

\* Everything on google, with service leads and a meta CPL that would cost
C11_Witness ==
    /\ pc = "done"
    /\ inputs.googleServiceSplit = One
    /\ Gt(ExactService, Zero)
    /\ Gt(inputs.metaServiceCPL, Zero)
    /\ Gt(BA.googleServiceBudget, Zero)
    /\ BA.metaServiceBudget = Zero

AllLeadRatesZero ==
    /\ inputs.serviceLeadsPerWeekRMF = Zero
    /\ inputs.aucklandServiceLeadsPerWeek = Zero
    /\ inputs.franchiseLeadsPerMonth = Zero
    /\ inputs.commercialLeadsPerQuarter = Zero

\* C12: for every input record whose four lead rates are zero, whatever the
\* CPLs, the engine returns a record with totalPaidAds = 0, roi = 0,
\* costPerAcquisition = 0 and ltvCacRatio = 0.
C12_ScenarioB ==
    (pc = "done" /\ AllLeadRatesZero) =>
        /\ calculations # NoResult
        /\ BA.totalPaidAds = Zero
        /\ FM.roi = Zero
        /\ FM.costPerAcquisition = Zero
        /\ FM.ltvCacRatio = Zero

\* No leads, a CPL changed from the base record, a positive lifetime value
C12_Witness ==
    /\ pc = "done"
    /\ AllLeadRatesZero
    /\ inputs.googleServiceCPL # SmallInputs.googleServiceCPL
    /\ Gt(FM.customerLTV, Zero)
    /\ FM.ltvCacRatio = Zero

ExactTotalLeads == Add(ExactService, Add(ExactFranchise, ExactCommercial))

\* C13: averageCPL = totalPaidAds / (total service + total franchise + total
\* commercial leads, unrounded) with no guard: when the sum of the three
\* annualized segments is 0 the returned averageCPL is not a finite number
\* (and so not 0).
C13_AverageCPLUnguarded ==
    pc = "done" =>
        /\ FM.averageCPL = Div(BA.totalPaidAds, ExactTotalLeads)
        /\ ExactTotalLeads = Zero =>
              (~isFinite(FM.averageCPL) /\ FM.averageCPL # Zero)

\* No leads at all: 0 / 0, while the guarded roi is 0
C13_Witness ==
    /\ pc = "done"
    /\ ExactTotalLeads = Zero
    /\ BA.totalPaidAds = Zero
    /\ isNaN(FM.averageCPL)
    /\ FM.roi = Zero

\* Two consecutive results of the hook, on records that agree outside S
BothDone == pc = "done" /\ pc' = "done"

AgreeOutside(S) == \A g \in Fields \ S : inputs'[g] = inputs[g]

\* The campaign budget and the channel total a CPL field is the price of
CampaignOf(f, ba) ==
    CASE f = "googleServiceCPL" -> ba.googleServiceBudget
      [] f = "metaServiceCPL" -> ba.metaServiceBudget
      [] f = "googleFranchiseCPL" -> ba.googleFranchiseBudget
      [] f = "metaFranchiseCPL" -> ba.metaFranchiseBudget
      [] f = "linkedInCommercialCPL" -> ba.commercialBudget

ChannelOf(f, ba) ==
    CASE f \in {"googleServiceCPL", "googleFranchiseCPL"} -> ba.totalGoogleBudget
      [] f \in {"metaServiceCPL", "metaFranchiseCPL"} -> ba.totalMetaBudget
      [] f = "linkedInCommercialCPL" -> ba.commercialBudget

\* A valid record inp, as ValidInputs is of the current one
ValidRecord(inp) ==
    /\ \A f \in LeadFields : Ge(inp[f], Zero)
    /\ \A f \in CPLFields : Gt(inp[f], Zero)
    /\ Ge(inp.avgMonthlyServiceFee, Zero)
    /\ Ge(inp.avgCustomerRetentionMonths, Zero)
    /\ InUnitInterval(inp.serviceLeadConversionRate)
    /\ InUnitInterval(inp.googleServiceSplit)

\* C14: of two valid input records that differ in one CPL only, the one with
\* the larger CPL has a campaign budget, a channel total and a totalPaidAds
\* each greater than or equal to the other's.
C14_CPLMonotone ==
    [][ \A f \in CPLFields :
          (BothDone /\ AgreeOutside({f}) /\ ValidRecord(inputs) /\ ValidRecord(inputs')) =>
              /\ Gt(inputs'[f], inputs[f]) =>
                    /\ Ge(CampaignOf(f, BA'), CampaignOf(f, BA))
                    /\ Ge(ChannelOf(f, BA'), ChannelOf(f, BA))
                    /\ Ge(BA'.totalPaidAds, BA.totalPaidAds)
              /\ Lt(inputs'[f], inputs[f]) =>
                    /\ Le(CampaignOf(f, BA'), CampaignOf(f, BA))
                    /\ Le(ChannelOf(f, BA'), ChannelOf(f, BA))
                    /\ Le(BA'.totalPaidAds, BA.totalPaidAds) ]_vars

\* A valid record recomputed after its google service CPL was raised above
\* the base record's, with google service leads to pay for
C14_Witness ==
    /\ pc = "done"
    /\ events >= 1
    /\ recomputed
    /\ ValidInputs
    /\ Gt(inputs.googleServiceCPL, SmallInputs.googleServiceCPL)
    /\ Gt(BA.googleServiceBudget, Zero)

ServiceFields ==
    { "rmfRegionCount", "serviceLeadsPerWeekRMF", "aucklandServiceLeadsPerWeek",
      "avgMonthlyServiceFee", "avgCustomerRetentionMonths",
      "serviceLeadConversionRate" }

\* C19: customerLTV, convertedCustomers and totalRevenue are unchanged when
\* franchiseLeadsPerMonth, commercialLeadsPerQuarter, googleServiceSplit or
\* one of the five CPLs changes and the other inputs stay fixed.
C19_OnlyServiceConverts ==
    [][ (BothDone /\ AgreeOutside(Fields \ ServiceFields)) =>
            /\ FM'.customerLTV = FM.customerLTV
            /\ FM'.convertedCustomers = FM.convertedCustomers
            /\ FM'.totalRevenue = FM.totalRevenue ]_vars

\* A recomputation after a change of the franchise rate away from the base
\* record's, with revenue
C19_Witness ==
    /\ pc = "done"
    /\ events >= 1
    /\ recomputed
    /\ inputs.franchiseLeadsPerMonth = Int2Num(2)
    /\ \A g \in ServiceFields : inputs[g] = SmallInputs[g]
    /\ Gt(FM.totalRevenue, Zero)

\* C20: googleFranchiseBudget, metaFranchiseBudget and commercialBudget are
\* unchanged when googleServiceSplit changes and the other inputs stay
\* fixed; the franchise leads are split by the fixed pair 0.7 / 0.3, which
\* sums to 1, whatever the service split.
C20_FranchiseSplitFixed ==
    /\ [][ (BothDone /\ AgreeOutside({"googleServiceSplit"})) =>
              /\ BA'.googleFranchiseBudget = BA.googleFranchiseBudget
              /\ BA'.metaFranchiseBudget = BA.metaFranchiseBudget
              /\ BA'.commercialBudget = BA.commercialBudget ]_vars
    /\ [](pc = "done" =>
              /\ BA.googleFranchiseBudget =
                    Mul(inputs.googleFranchiseCPL, Mul(Rat(7, 10), ExactFranchise))
              /\ BA.metaFranchiseBudget =
                    Mul(inputs.metaFranchiseCPL, Mul(Rat(3, 10), ExactFranchise))
              /\ Add(GOOGLE_FRANCHISE_RATIO, META_FRANCHISE_RATIO) = One)

\* A recomputation after the service split was moved to 1/8, with franchise
\* and commercial spend
C20_Witness ==
    /\ pc = "done"
    /\ events >= 1
    /\ recomputed
    /\ inputs.googleServiceSplit = Rat(1, 8)
    /\ Gt(BA.googleFranchiseBudget, Zero)
    /\ Gt(BA.metaFranchiseBudget, Zero)
    /\ Gt(BA.commercialBudget, Zero)

\* The bounds of the widget under edit
PropMin == Int2Num(WidgetMin[widget.id])
PropMax == Int2Num(WidgetMax[widget.id])

C17_InputsWithinBounds ==
    /\ \A w \in Fields :
          isWithinRange(valueProp(w, inputs), Int2Num(WidgetMin[w]), Int2Num(WidgetMax[w]))
    /\ \A f \in LeadFields : Ge(inputs[f], Zero)
    /\ \A f \in CPLFields : Gt(inputs[f], Zero)
    /\ InUnitInterval(inputs.serviceLeadConversionRate)
    /\ InUnitInterval(inputs.googleServiceSplit)

\* Two edits: the split typed below its minimum, the region count above its
\* maximum
C17_Witness ==
    /\ events = 2
    /\ inputs.googleServiceSplit = Rat(1, 2)
    /\ inputs.rmfRegionCount = Int2Num(20)

\* C18: after any sequence of input changes and re-renders the record the
\* memoized hook returns is the record a recomputation from the current 14
\* input fields gives; a render after a change of an input field runs the
\* function, and a render with the 14 fields unchanged returns the previous
\* record without running it.
C18_NoStaleResults ==
    /\ [](calculations = Calculate(inputs))
    /\ [][ /\ inputs' # inputs => recomputed'
           /\ (inputs' = inputs /\ events' # events) =>
                  (~recomputed' /\ calculations' = calculations) ]_vars

\* A render that reused the record of an earlier change of the split
C18_Witness ==
    /\ events = 2
    /\ ~recomputed
    /\ inputs.googleServiceSplit # DefaultInputs.googleServiceSplit
    /\ calculations # Calculate(DefaultInputs)

\* C21: in every state reachable through the widgets of the calculator,
\* totalPaidAds, the converted customers, costPerAcquisition and the sum of
\* the three annual lead segments are strictly positive, so that roi,
\* costPerAcquisition and ltvCacRatio are their quotients and not the
\* substituted 0, averageCPL is finite, and the divisors of the Budget
\* Distribution and Break-Even panels (totalPaidAds, the returned
\* totalServiceLeads, customerLTV) are not zero.
C21_PositiveThroughUI ==
    /\ Gt(BA.totalPaidAds, Zero)
    /\ Gt(ExactConverted, Zero)
    /\ Gt(FM.costPerAcquisition, Zero)
    /\ Gt(ExactTotalLeads, Zero)
    /\ FM.roi = Mul(Div(Sub(FM.totalRevenue, BA.totalPaidAds), BA.totalPaidAds),
                    Int2Num(100))
    /\ FM.costPerAcquisition = Div(BA.totalPaidAds, ExactConverted)
    /\ FM.ltvCacRatio = Div(FM.customerLTV, FM.costPerAcquisition)
    /\ isFinite(FM.averageCPL)
    /\ BA.totalPaidAds # Zero
    /\ LM.totalServiceLeads # Zero
    /\ FM.customerLTV # Zero

\* Two edits that put both weekly service lead rates at their minimum
C21_Witness ==
    /\ events = 2
    /\ inputs.serviceLeadsPerWeekRMF = One
    /\ inputs.aucklandServiceLeadsPerWeek = One
    /\ Gt(FM.costPerAcquisition, Zero)
    /\ isFinite(FM.averageCPL)

\* C22: in the real-time InputGroup a change event whose text does not parse
\* to a finite number only replaces the text on display: onChange is not
\* called and the parent's value, and the record derived from it, stay as
\* they were; a blur event on such a text passes min to onChange, which
\* becomes the parent's value and the text on display.
C22_UnparsableText ==
    [][ (widget.variant = "realtime" /\ events' # events) =>
          /\ (lastEvent'.type = "change" /\ ~isFinite(parseFloat(lastEvent'.value))) =>
                /\ widget'.displayValue = lastEvent'.value
                /\ widget'.previousValueRef = widget.previousValueRef
                /\ lastEvent'.forwarded = NotForwarded
                /\ inputs' = inputs
                /\ calculations' = calculations
          /\ (lastEvent'.type = "blur" /\ ~isFinite(parseFloat(widget.displayValue))) =>
                /\ lastEvent'.value = widget.displayValue
                /\ lastEvent'.forwarded = Int2Num(WidgetMin[widget.id])
                /\ valueProp(widget.id, inputs') = Int2Num(WidgetMin[widget.id])
                /\ widget'.displayValue = String(Int2Num(WidgetMin[widget.id])) ]_vars

\* A blur on a text without a number, which a change event had put on
\* display: min was committed in place of the default value
C22_Witness ==
    /\ lastEvent # NoEvent
    /\ widget.variant = "realtime"
    /\ lastEvent.type = "blur"
    /\ ~isFinite(parseFloat(lastEvent.value))
    /\ lastEvent.forwarded = PropMin
    /\ valueProp(widget.id, inputs) = PropMin
    /\ inputs # DefaultInputs

\* C23: in the real-time InputGroup, after any sequence of change events
\* followed by a blur event the text on display is the string form of the
\* value the blur committed to the parent, which is the parent's value and
\* lies in [min, max]; after a change event and before the next blur the
\* display holds the typed text, whatever value was committed.  (Stated for
\* the typed text on the widgets whose value prop is the stored field; the
\* percentage widgets divide and multiply by 100 in floating point, which
\* the exact arithmetic here does not follow.)
C23_BlurNormalises ==
    (widget.variant = "realtime" /\ lastEvent # NoEvent) =>
        /\ lastEvent.type = "blur" =>
              /\ lastEvent.forwarded # NotForwarded
              /\ widget.displayValue = String(lastEvent.forwarded)
              /\ valueProp(widget.id, inputs) = lastEvent.forwarded
              /\ widget.previousValueRef = lastEvent.forwarded
              /\ isWithinRange(lastEvent.forwarded, PropMin, PropMax)
        /\ (lastEvent.type = "change" /\ widget.id \notin PercentWidgets) =>
              widget.displayValue = lastEvent.value

\* A blur on a typed number below min: the display, which held the typed
\* text, now holds min
C23_Witness ==
    /\ lastEvent # NoEvent
    /\ widget.variant = "realtime"
    /\ lastEvent.type = "blur"
    /\ events = 2
    /\ Lt(parseFloat(lastEvent.value), PropMin)
    /\ lastEvent.value # widget.displayValue
    /\ widget.displayValue = String(PropMin)

\* Between a change and the blur: the display differs from the string form
\* of the committed value
C23_DisplayDiffers ==
    /\ lastEvent # NoEvent
    /\ widget.variant = "realtime"
    /\ lastEvent.type = "change"
    /\ lastEvent.forwarded # NotForwarded
    /\ widget.displayValue # String(lastEvent.forwarded)

\* C24: the total marketing budget the calculator shows is always
\* totalPaidAds of the current inputs + 30000 (out-of-home) + 15000 (content
\* production); the two additional items are fixed: no edit changes the
\* difference between the total and totalPaidAds.
C24_TotalMarketingBudget ==
    /\ totalMarketingBudget(BA) =
          Add(Calculate(inputs).budgetAllocation.totalPaidAds, Int2Num(45000))
    /\ Sub(totalMarketingBudget(BA), BA.totalPaidAds) = Int2Num(30000 + 15000)
    /\ inputs = DefaultInputs => totalMarketingBudget(BA) = Int2Num(194844)

\* Two edits after which totalPaidAds is no longer that of the defaults
C24_Witness ==
    /\ events = 2
    /\ BA.totalPaidAds # Calculate(DefaultInputs).budgetAllocation.totalPaidAds
    /\ totalMarketingBudget(BA) = Add(BA.totalPaidAds, Int2Num(45000))

\* The leads each of the five CPL inputs is paid for
SegmentLeads ==
    [ googleServiceCPL |-> ExactGoogleLeads,
      metaServiceCPL |-> ExactMetaLeads,
      googleFranchiseCPL |-> Mul(Rat(7, 10), ExactFranchise),
      metaFranchiseCPL |-> Mul(Rat(3, 10), ExactFranchise),
      linkedInCommercialCPL |-> ExactCommercial ]

RECURSIVE WeightedSum(_)
WeightedSum(S) ==
    IF S = {} THEN Zero
    ELSE LET f == CHOOSE g \in S : TRUE
         IN  Add(Mul(SegmentLeads[f], inputs[f]), WeightedSum(S \ {f}))

\* C25: for every input record with non-negative lead rates, a split in
\* [0, 1] and a positive sum of the lead segments, averageCPL is the average
\* of the five CPL inputs weighted by the leads of their segments: it is not
\* below the smallest and not above the largest CPL of a segment with leads.
C25_AverageCPLWeighted ==
    (/\ pc = "done"
     /\ \A f \in LeadFields : Ge(inputs[f], Zero)
     /\ InUnitInterval(inputs.googleServiceSplit)
     /\ Gt(ExactTotalLeads, Zero)) =>
        LET live == {f \in CPLFields : Gt(SegmentLeads[f], Zero)}
        IN  /\ live # {}
            /\ Mul(FM.averageCPL, ExactTotalLeads) = WeightedSum(CPLFields)
            /\ \E f \in live : Le(inputs[f], FM.averageCPL)
            /\ \E f \in live : Ge(inputs[f], FM.averageCPL)

\* A record with service leads only: the average lies strictly between the
\* two service CPLs, below the CPLs of the segments without leads
C25_Witness ==
    /\ pc = "done"
    /\ \A f \in LeadFields : Ge(inputs[f], Zero)
    /\ InUnitInterval(inputs.googleServiceSplit)
    /\ Gt(ExactTotalLeads, Zero)
    /\ Gt(FM.averageCPL, inputs.googleServiceCPL)
    /\ Lt(FM.averageCPL, inputs.metaServiceCPL)
    /\ SegmentLeads.linkedInCommercialCPL = Zero
    /\ Gt(inputs.linkedInCommercialCPL, FM.averageCPL)

\* C26: whenever totalPaidAds > 0 and the converted customers > 0,
\* ltvCacRatio = totalRevenue / totalPaidAds = roi / 100 + 1, so that roi > 0
\* exactly when ltvCacRatio > 1; and roi >= -100 for every record of
\* non-negative inputs.
C26_RatioAndRoi ==
    pc = "done" =>
        /\ (Gt(BA.totalPaidAds, Zero) /\ Gt(ExactConverted, Zero)) =>
              /\ FM.ltvCacRatio = Div(FM.totalRevenue, BA.totalPaidAds)
              /\ FM.ltvCacRatio = Add(Div(FM.roi, Int2Num(100)), One)
              /\ Gt(FM.roi, Zero) <=> Gt(FM.ltvCacRatio, One)
        /\ (\A f \in Fields : Ge(inputs[f], Zero)) => Ge(FM.roi, Int2Num(-100))

\* A record whose revenue does not cover the spend: a negative roi above
\* -100 and a ratio between 0 and 1
C26_Witness ==
    /\ pc = "done"
    /\ \A f \in Fields : Ge(inputs[f], Zero)
    /\ Gt(BA.totalPaidAds, Zero)
    /\ Gt(ExactConverted, Zero)
    /\ Lt(FM.roi, Zero)
    /\ Gt(FM.roi, Int2Num(-100))
    /\ Lt(FM.ltvCacRatio, One)
    /\ FM.ltvCacRatio = Add(Div(FM.roi, Int2Num(100)), One)

\* The characters of a formatted finite number
NumberChars == Digits \cup {"$", "-", ",", ".", "%"}

WithoutCommas(text) == SelectSeq(text, LAMBDA c : c # ",")

\* C27: the display formatters never render a non-finite value: for NaN and
\* +-Infinity formatCurrency returns "$0", formatNumber "0" and
\* formatPercentage "0%", so that the non-finite averageCPL of a record
\* without leads is shown as "$0"; for a finite value formatNumber formats
\* the value rounded to the nearest integer.
C27_FormattersGuardNonFinite ==
    /\ call.fn = "formatCurrency" =>
          /\ ~isFinite(call.args[1]) => call.result = <<"$", "0">>
          /\ \A i \in DOMAIN call.result : call.result[i] \in NumberChars
    /\ call.fn = "formatNumber" =>
          /\ ~isFinite(call.args[1]) => call.result = <<"0">>
          /\ \A i \in DOMAIN call.result : call.result[i] \in NumberChars
          /\ isFinite(call.args[1]) =>
                /\ RoundsTo(parseFloat(WithoutCommas(call.result)), call.args[1])
                /\ parseFloat(WithoutCommas(call.result)) = MathRound(call.args[1])
    /\ call.fn = "formatPercentage" =>
          /\ ~isFinite(call.args[1]) => call.result = <<"0", "%">>
          /\ \A i \in DOMAIN call.result : call.result[i] \in NumberChars
    /\ ~isFinite(Calculate(ZeroLeadInputs).financialMetrics.averageCPL)

\* formatCurrency called on the averageCPL of the record without leads
C27_Witness ==
    /\ call.fn = "formatCurrency"
    /\ call.args[1] = Calculate(ZeroLeadInputs).financialMetrics.averageCPL
    /\ isNaN(call.args[1])
    /\ call.result = <<"$", "0">>

\* C28 as stated: clamp(value, min, max) with min <= max returns a result in
\* [min, max] for every value, returns value unchanged when value is
\* already in [min, max], and is idempotent; isWithinRange(clamp(v, min,
\* max), min, max) is true for every finite v; calculatePercentage(value,
\* total) is 0 when total is 0 and value / total x 100 otherwise.
C28_ClampContractAnyValue ==
    /\ (call.fn = "clamp" /\ Le(call.args[2], call.args[3])) =>
          /\ Ge(call.result, call.args[2])
          /\ Le(call.result, call.args[3])
          /\ (Ge(call.args[1], call.args[2]) /\ Le(call.args[1], call.args[3])) =>
                call.result = call.args[1]
          /\ clamp(call.result, call.args[2], call.args[3]) = call.result
          /\ isFinite(call.args[1]) =>
                isWithinRange(call.result, call.args[2], call.args[3])
    /\ call.fn = "calculatePercentage" =>
          /\ call.args[2] = Zero => call.result = Zero
          /\ call.args[2] # Zero =>
                call.result = Mul(Div(call.args[1], call.args[2]), Int2Num(100))

\* C28: clamp(value, min, max) with min <= max returns a result in
\* [min, max] for every value but NaN, which it returns as NaN; it returns
\* value unchanged when value is already in [min, max], and is idempotent;
\* isWithinRange(clamp(v, min, max), min, max) is true for every finite v
\* and finite min <= max, and a value isWithinRange accepts is a value
\* clamp leaves alone; calculatePercentage(value, total) is 0 when total is
\* 0, whatever the value, and value / total x 100 otherwise.
C28_ClampContract ==
    /\ (call.fn = "clamp" /\ Le(call.args[2], call.args[3])) =>
          /\ ~isNaN(call.args[1]) =>
                (Ge(call.result, call.args[2]) /\ Le(call.result, call.args[3]))
          /\ isNaN(call.args[1]) => isNaN(call.result)
          /\ (Ge(call.args[1], call.args[2]) /\ Le(call.args[1], call.args[3])) =>
                call.result = call.args[1]
          /\ clamp(call.result, call.args[2], call.args[3]) = call.result
          /\ (isFinite(call.args[1]) /\ isFinite(call.args[2]) /\ isFinite(call.args[3])) =>
                isWithinRange(call.result, call.args[2], call.args[3])
    /\ (call.fn = "isWithinRange" /\ call.result) =>
          clamp(call.args[1], call.args[2], call.args[3]) = call.args[1]
    /\ call.fn = "calculatePercentage" =>
          /\ call.args[2] = Zero => call.result = Zero
          /\ call.args[2] # Zero =>
                call.result = Mul(Div(call.args[1], call.args[2]), Int2Num(100))
          /\ (isFinite(call.args[1]) /\ isFinite(call.args[2]) /\ call.args[2] # Zero) =>
                Mul(call.result, call.args[2]) = Mul(call.args[1], Int2Num(100))

\* clamp called on a finite value above a finite max: max is returned
C28_Witness ==
    /\ call.fn = "clamp"
    /\ isFinite(call.args[1])
    /\ isFinite(call.args[2])
    /\ Lt(call.args[2], call.args[3])
    /\ Gt(call.args[1], call.args[3])
    /\ call.result = call.args[3]

\* clamp called on NaN between 0 and 100
C28_ClampOfNaN ==
    /\ call.fn = "clamp"
    /\ isNaN(call.args[1])
    /\ call.args[2] = Zero
    /\ call.args[3] = Int2Num(100)
    /\ isNaN(call.result)

====
